---- MODULE Spec2Model ----
(***************************************************************************)
(* The webhook capture listener of marketplace/webhook-tester/plugin.py:   *)
(* the `listen` command (a socketserver.TCPServer driving WebhookHandler), *)
(* its module-level REQUESTS_LOG and the export written on Ctrl+C.         *)
(*                                                                         *)
(* socketserver.TCPServer is the single-threaded server of the standard    *)
(* library: serve_forever accepts one connection, runs the handler to its  *)
(* end (or to an exception, which handle_error reports) and only then      *)
(* accepts the next.  http.server.BaseHTTPRequestHandler speaks HTTP/1.0,  *)
(* so one connection carries one request; it looks up do_<METHOD> and      *)
(* answers 501 itself when the handler class has no such method, and 400   *)
(* when the request line does not parse.                                   *)
(***************************************************************************)
EXTENDS Integers, Sequences, FiniteSets, TLC

VARIABLES
    cstate,        \* connection -> "idle" | "queued" | "active" | "closed"
    creq,          \* connection -> the request its client sends
    arrived,       \* connection -> payload bytes that reached the server socket
    cend,          \* connection -> client side: "open" | "fin" | "rst"
    resp,          \* connection -> responses the client received (0 or 1)
    srv,           \* "serving" | "interrupted" | "exited" | "crashed"
    active,        \* connection the handler is running for, 0 if none
    pc,            \* handler position: "idle" | "dispatch" | "read" | "append" | "trace" | "respond"
    body,          \* handler local `body` (decoded text)
    request_data,  \* handler local `request_data`
    REQUESTS_LOG,  \* the module-level list
    clock,         \* datetime.now()
    console,       \* trace lines printed by the handler
    save,          \* the --save option: TRUE when a path was given
    file,          \* the export file: <<>> when not written, else its JSON tokens
    loaded,        \* `inspect`: what json.load returned, or its failure
    table,         \* `inspect`: the rows added to the Table so far
    ipc,           \* `inspect` position: "none" | "header" | "rows" | "done" | "failed"
    run,           \* number of the `listen` run of this process
    runStart,      \* clock when the current `listen` run started
    mock,          \* `mock`: the --status, --response and --delay options
    opts,          \* `send`: the options method, data, header, repeat, delay
    headers,       \* `send`: the local dict `headers`
    sendBody,      \* `send`: the local `body`
    iter,          \* `send`: the loop index `i`
    spc,           \* `send` position: "none" | "headers" | "body" | "attempt" | "sleep" | "done" | "failed"
    calls,         \* `send`: the calls made to the requests library, with their outcome
    sleeps,        \* `send`: the loop indices at which time.sleep(delay) ran
    portBusy,      \* another server already listens on the --port
    exitCode,      \* exit status of a command that ended in an error, else 0
    \* history variables (not program state)
    logOwner,      \* connection of each record of REQUESTS_LOG
    readOrder,     \* connections in the order their body reads completed
    gotBytes,      \* connection -> what rfile.read returned (<<>> if it never returned)
    cutShort,      \* connections whose client had gone before the declared body arrived
    failed,        \* connections whose handling ended in an error
    handled,       \* connections the serve loop finished with
    inflight       \* connections being handled when the interrupt arrived

vars == <<cstate, creq, arrived, cend, resp, srv, active, pc, body, request_data,
          REQUESTS_LOG, clock, console, save, file, loaded, table, ipc,
          run, runStart, mock,
          opts, headers, sendBody, iter, spc, calls, sleeps, portBusy, exitCode,
          logOwner, readOrder, gotBytes, cutShort, failed, handled, inflight>>

clientVars == <<creq, arrived, cend>>
handlerVars == <<body, request_data>>
histVars == <<logOwner, readOrder, gotBytes, cutShort, failed, handled, inflight>>

\* State of the other commands of the plugin, which `listen` never touches.
sendVars == <<opts, headers, sendBody, iter, spc, calls, sleeps>>
startVars == <<portBusy, exitCode>>
inspectVars == <<loaded, table, ipc>>
runVars == <<run, runStart>>
restVars == <<inspectVars, runVars, mock, sendVars, startVars>>

\* ------------------------------------------------------------------ bounds

\* Connections of one run of the main specification.
NConn == 2

\* Connections fired at once in the burst specification.
BurstK == 8

\* ------------------------------------------------------------- HTTP inputs

\* The do_* methods WebhookHandler defines.
DoMethods == {"GET", "POST", "PUT", "DELETE", "PATCH"}

Hdr(n, v) == [name |-> n, value |-> v]

Req(m, hs, bs) == [method |-> m, path |-> "/hook", headers |-> hs, payload |-> bs,
                   wellformed |-> TRUE]

NoReq == [method |-> "", path |-> "", headers |-> <<>>, payload |-> <<>>,
          wellformed |-> FALSE]

\* Bytes: "a" is an ASCII byte, "L" "C" the two bytes of a two-byte UTF-8
\* character (a lead byte and its continuation byte).
BasePost == Req("POST", <<Hdr("Content-Length", "2")>>, <<"a", "a">>)
PlainGet == Req("GET", <<>>, <<>>)
OptionsReq == Req("OPTIONS", <<>>, <<>>)
BadLength == Req("POST", <<Hdr("Content-Length", "abc")>>, <<>>)
TwoByteChar == Req("POST", <<Hdr("Content-Length", "2")>>, <<"L", "C">>)
DupHeader == Req("GET", <<Hdr("X-Id", "1"), Hdr("X-Id", "2")>>, <<>>)
BadRequestLine == [method |-> "POST", path |-> "/hook", headers |-> <<>>,
                   payload |-> <<>>, wellformed |-> FALSE]

\* The requests a client may send.
RequestMenu == {BasePost, PlainGet, OptionsReq, BadLength, TwoByteChar, DupHeader,
                BadRequestLine}

\* The requests of the burst.
BurstMenu == {BasePost, OptionsReq}

\* The requests of the liveness specification.
LiveMenu == {BasePost, BadLength, BadRequestLine}

\* ---------------------------------------------------------- pure functions

Min(a, b) == IF a < b THEN a ELSE b

Range(s) == {s[i] : i \in DOMAIN s}

IsPrefix(s, t) == Len(s) <= Len(t) /\ SubSeq(t, 1, Len(s)) = s

\* bytes.decode('utf-8', errors='replace') always succeeds
LenientUtf8(bs) == TRUE

\* bytes.decode('utf-8') succeeds
RECURSIVE ValidUtf8(_)
ValidUtf8(bs) ==
    IF bs = <<>> THEN TRUE
    ELSE IF Head(bs) = "a" THEN ValidUtf8(Tail(bs))
    ELSE IF Head(bs) = "L"
         THEN Len(bs) >= 2 /\ bs[2] = "C" /\ ValidUtf8(Tail(Tail(bs)))
    ELSE FALSE

\* The text of valid bytes: one character per ASCII byte, one per L C pair.
RECURSIVE DecodeUtf8(_)
DecodeUtf8(bs) ==
    IF bs = <<>> THEN <<>>
    ELSE IF Head(bs) = "L" /\ Len(bs) >= 2 /\ bs[2] = "C"
         THEN <<"e-acute">> \o DecodeUtf8(Tail(Tail(bs)))
    ELSE IF Head(bs) = "a" THEN <<"a">> \o DecodeUtf8(Tail(bs))
    ELSE <<"?">> \o DecodeUtf8(Tail(bs))

\* str.encode('utf-8'), the inverse on text.
RECURSIVE EncodeUtf8(_)
EncodeUtf8(cs) ==
    IF cs = <<>> THEN <<>>
    ELSE (IF Head(cs) = "e-acute" THEN <<"L", "C">> ELSE <<Head(cs)>>)
         \o EncodeUtf8(Tail(cs))

\* int(s) for the strings that are integer literals; any other string raises
\* ValueError.
IntLiteral == ("0" :> 0) @@ ("1" :> 1) @@ ("2" :> 2) @@ ("-1" :> -1)

\* self.headers.get(name): the value of the first header of that name.
RECURSIVE HeaderIndex(_, _, _)
HeaderIndex(hs, n, i) ==
    IF i > Len(hs) THEN 0
    ELSE IF hs[i].name = n THEN i
    ELSE HeaderIndex(hs, n, i + 1)

HasHeader(hs, n) == HeaderIndex(hs, n, 1) # 0

HeaderGet(hs, n) == hs[HeaderIndex(hs, n, 1)].value

\* int(self.headers.get('Content-Length', 0)) raises ValueError
ContentLengthRaises(hs) ==
    HasHeader(hs, "Content-Length")
    /\ HeaderGet(hs, "Content-Length") \notin DOMAIN IntLiteral

\* int(self.headers.get('Content-Length', 0)) when it does not raise
ContentLength(hs) ==
    IF HasHeader(hs, "Content-Length")
    THEN IntLiteral[HeaderGet(hs, "Content-Length")]
    ELSE 0

\* dict(self.headers): one entry per name, in order of first occurrence, with
\* the value Message.__getitem__ gives (the first header of that name).
RECURSIVE DictOfFrom(_, _)
DictOfFrom(hs, i) ==
    IF i > Len(hs) THEN <<>>
    ELSE IF HeaderIndex(hs, hs[i].name, 1) = i
         THEN <<hs[i]>> \o DictOfFrom(hs, i + 1)
    ELSE DictOfFrom(hs, i + 1)

DictOf(hs) == DictOfFrom(hs, 1)

\* The request_data of lines 38-44.
MakeRecord(ts, m, r, b) ==
    [timestamp |-> ts, method |-> m, path |-> r.path,
     headers |-> DictOf(r.headers), body |-> b]

NoRecord == [timestamp |-> 0, method |-> "", path |-> "", headers |-> <<>>, body |-> <<>>]

\* REQUESTS_LOG.insert(0, request_data)
PrependRecord(log, r) == <<r>> \o log

\* REQUESTS_LOG[:] = [request_data]: a log that keeps the latest record only.
KeepLatest(log, r) == <<r>>

\* No append at all: the log is left as it is.
DropRecord(log, r) == log

\* REQUESTS_LOG.append(request_data)
AppendRecord(log, r) == Append(log, r)

\* The acknowledgement of lines 62-67.
Ack(rd) == [code |-> 200, ctype |-> "application/json",
            body |-> [status |-> "received", timestamp |-> rd.timestamp]]

\* BaseHTTPRequestHandler.send_error
ErrorPage(code) == [code |-> code, ctype |-> "text/html;charset=utf-8",
                    body |-> [html |-> "Error response"]]

\* The serve loop after a handler raised an Exception, were the exception to
\* leave serve_forever.
CrashOnHandlerError == "crashed"

\* What the serve loop is after a handler raised an Exception:
\* socketserver catches it, reports it and goes on serving.
AfterHandlerError == "serving"

\* ------------------------------------------------------------- export file

\* json.dumps of a str under ensure_ascii (the default of json.dump): a
\* character outside ASCII is written as its \uXXXX escape.
JsonEscape(text) ==
    [i \in DOMAIN text |-> IF text[i] = "e-acute" THEN "\\u00e9" ELSE text[i]]

\* The JSON decoder's reading of a string literal.
JsonUnescape(chars) ==
    [i \in DOMAIN chars |-> IF chars[i] = "\\u00e9" THEN "e-acute" ELSE chars[i]]

\* A dump that keeps of each record only its request line.
JsonSummary(rec) ==
    [tok |-> "object", members |-> [method |-> rec.method, path |-> rec.path]]

\* One dict as json.dump writes it: an object with one member per key.  Of
\* the values only the body holds characters that need an escape.
JsonObject(rec) ==
    [tok |-> "object",
     members |-> [k \in DOMAIN rec |->
                     IF k = "body" THEN JsonEscape(rec[k]) ELSE rec[k]]]

\* Writes the records but the last one.
DumpAllButLast(log) ==
    <<[tok |-> "["]>> \o [i \in 1..(Len(log) - 1) |-> JsonObject(log[i])] \o <<[tok |-> "]"]>>

\* json.dump(REQUESTS_LOG, f, indent=2): the text of the file, as tokens.
JsonDump(log) ==
    <<[tok |-> "["]>> \o [i \in 1..Len(log) |-> JsonObject(log[i])] \o <<[tok |-> "]"]>>

\* The text parses as a JSON array of objects.
JsonValid(toks) ==
    /\ Len(toks) >= 2
    /\ toks[1].tok = "["
    /\ toks[Len(toks)].tok = "]"
    /\ \A i \in 2..(Len(toks) - 1) : toks[i].tok = "object"

\* json.load(f) of such a text: one dict per object, members as written.
JsonLoad(toks) ==
    [i \in 1..(Len(toks) - 2) |->
        [k \in DOMAIN toks[i + 1].members |->
            IF k = "body" THEN JsonUnescape(toks[i + 1].members[k])
            ELSE toks[i + 1].members[k]]]

\* `inspect` has not run / json.load returned data / open or json.load raised.
NotLoaded == [st |-> "none", data |-> <<>>]
LoadedOk(data) == [st |-> "ok", data |-> data]
LoadError == [st |-> "error", data |-> <<>>]

\* ----------------------------------------------------------- mock settings

\* No mock server is running.
NoMock == [status |-> 0, response |-> <<>>, delay |-> 0]

\* The do_* methods MockHandler defines.
MockMethods == {"GET", "POST", "PUT", "DELETE"}

\* Lines 180-184: the configured status and the encoded response text.
MockReply(cfg) == [code |-> cfg.status, ctype |-> "application/json",
                   body |-> [raw |-> EncodeUtf8(cfg.response)]]

\* ------------------------------------------------------------ send options

\* Attempts of the longest `send` run.
MaxRepeat == 3

\* str.upper and str.lower on the method and header names used below.
Upper(m) == IF m = "post" THEN "POST" ELSE m

Lower(n) ==
    CASE n = "Content-Type" -> "content-type"
      [] n = "X-Url" -> "x-url"
      [] OTHER -> n

LowerAll(k) == [j \in DOMAIN k |-> Lower(k[j])]

\* A --header option is a string, written here as its pieces with ":" and
\* " " as pieces of their own.
HasColon(h) == \E k \in DOMAIN h : h[k] = ":"

FirstColon(h) == CHOOSE k \in DOMAIN h : h[k] = ":" /\ \A j \in 1..(k - 1) : h[j] # ":"

\* str.strip
RECURSIVE Strip(_)
Strip(t) ==
    IF t = <<>> THEN <<>>
    ELSE IF Head(t) = " " THEN Strip(Tail(t))
    ELSE IF t[Len(t)] = " " THEN Strip(SubSeq(t, 1, Len(t) - 1))
    ELSE t

\* Line 126: key, value = h.split(":", 1)
KeyOf(h) == SubSeq(h, 1, FirstColon(h) - 1)
ValueOf(h) == SubSeq(h, FirstColon(h) + 1, Len(h))

\* dict.setdefault(k, v): an entry already there keeps its value.
SetDefault(d, k, v) ==
    IF \E j \in DOMAIN d : d[j].name = k THEN d ELSE Append(d, Hdr(k, v))

\* d[k] = v on a dict: the entry of an equal key gets the value, a new key
\* is added at the end.
SetItem(d, k, v) ==
    IF \E j \in DOMAIN d : d[j].name = k
    THEN [j \in DOMAIN d |-> IF d[j].name = k THEN Hdr(k, v) ELSE d[j]]
    ELSE Append(d, Hdr(k, v))

\* Line 124.
DefaultHeaders == <<Hdr(<<"Content-Type">>, <<"application/json">>)>>

\* Lines 125-127 over well-formed options, from the n-th on.
RECURSIVE HeadersFrom(_, _, _)
HeadersFrom(d, hs, n) ==
    IF n > Len(hs) THEN d
    ELSE HeadersFrom(SetItem(d, Strip(KeyOf(hs[n])), Strip(ValueOf(hs[n]))), hs, n + 1)

\* requests merges the headers it is given into a CaseInsensitiveDict: a
\* later name equal but for case replaces the earlier entry, name and value.
SetItemNoCase(d, k, v) ==
    IF \E j \in DOMAIN d : LowerAll(d[j].name) = LowerAll(k)
    THEN [j \in DOMAIN d |-> IF LowerAll(d[j].name) = LowerAll(k) THEN Hdr(k, v) ELSE d[j]]
    ELSE Append(d, Hdr(k, v))

RECURSIVE MergeNoCase(_, _, _)
MergeNoCase(d, hs, n) ==
    IF n > Len(hs) THEN d
    ELSE MergeNoCase(SetItemNoCase(d, hs[n].name, hs[n].value), hs, n + 1)

\* The headers of the request requests sends for a call: the merged headers,
\* and for a json= body a Content-Type of its own when none is among them.
SentHeaders(call) ==
    LET merged == MergeNoCase(<<>>, call.headers, 1)
    IN  IF call.hasJson
            /\ ~\E j \in DOMAIN merged : LowerAll(merged[j].name) = <<"content-type">>
        THEN Append(merged, Hdr(<<"Content-Type">>, <<"application/json">>))
        ELSE merged

\* json.loads of the --data text, written as the pieces "{" key value "}".
JsonLoadsRaises(text) == ~(Len(text) = 4 /\ text[1] = "{" /\ text[4] = "}")
JsonLoads(text) == [members |-> <<[name |-> text[2], value |-> text[3]]>>]

\* Line 129: the body when --data is not given.
Marker(now) == [test |-> TRUE, timestamp |-> now]

NoBody == [none |-> TRUE]

\* Every call is given json=body.
AlwaysCarriesBody(m) == TRUE

\* Lines 138-147: the calls that are given json=body.
CarriesBody(m) == m \notin {"GET", "DELETE"}

\* The loop index after an attempt that raised, were the try around the loop.
AbortAfterError(k, repeat) == repeat

\* The loop index after an attempt that raised: the except clause is inside
\* the loop, which goes on with the next index.
IndexAfterError(k, repeat) == k + 1

\* `send` is not running.
NoOpts == [method |-> "", data |-> <<>>, header |-> <<>>, repeat |-> 0, delay |-> 0]

SendIdle ==
    /\ opts = NoOpts
    /\ headers = <<>>
    /\ sendBody = NoBody
    /\ iter = 0
    /\ spc = "none"
    /\ calls = <<>>
    /\ sleeps = <<>>

\* -------------------------------------------------------------- the port

\* socket.bind succeeds although another server listens on the port.
BindShares(busy) == FALSE

\* Lines 102 and 200: TCPServer's constructor binds the port, and bind
\* raises OSError (address already in use) when another server holds it.
BindRaises(busy) == busy

\* The port is free and no command has failed.
StartIdle ==
    /\ portBusy = FALSE
    /\ exitCode = 0

\* ------------------------------------------------------------ inspect rows

\* `inspect` is not running.
InspectIdle ==
    /\ loaded = NotLoaded
    /\ table = <<>>
    /\ ipc = "none"

\* s[a:b] of Python on a sequence of characters.
Slice(s, a, b) == SubSeq(s, a + 1, Min(b, Len(s)))

DigitChar(d) == <<"0", "1", "2", "3", "4", "5", "6", "7", "8", "9">>[d + 1]

TwoDigits(n) == <<DigitChar(n \div 10), DigitChar(n % 10)>>

\* datetime.isoformat() of the instant t (seconds after midnight of a fixed
\* day): YYYY-MM-DDTHH:MM:SS.ffffff.  A record's timestamp t stands for this
\* string.
IsoFormat(t) ==
    <<"2", "0", "2", "6", "-", "1", "1", "-", "0", "2", "T">>
        \o TwoDigits(t \div 3600) \o <<":">> \o TwoDigits((t \div 60) % 60)
        \o <<":">> \o TwoDigits(t % 60)
        \o <<".", "0", "0", "0", "0", "0", "1">>

\* The characters of a path.
PathChars(p) ==
    CASE p = "/hook" -> <<"/", "h", "o", "o", "k">>
      [] p = "/other" -> <<"/", "o", "t", "h", "e", "r">>
      [] p = "/long" -> [j \in 1..35 |-> IF j = 1 THEN "/" ELSE "p"]
      [] OTHER -> <<>>

\* Lines 223-227 raise KeyError on a dict without the key.
RowRaises(req) == ~({"method", "path", "timestamp"} \subseteq DOMAIN req)

\* Lines 222-228: the cells of the row of the k-th dict.
Row(k, req) ==
    [index |-> k,
     method |-> req.method,
     path |-> Slice(PathChars(req.path), 0, 30),
     time |-> Slice(IsoFormat(req.timestamp), 11, 19),
     size |-> IF "body" \in DOMAIN req THEN Len(req.body) ELSE 0]

\* The first `listen` run of the process has started at clock 1.
FirstRun ==
    /\ run = 1
    /\ runStart = 1

\* ------------------------------------------------------------------- state

Conns == DOMAIN cstate

Init ==
    /\ cstate = [c \in 1..NConn |-> "idle"]
    /\ creq = [c \in 1..NConn |-> NoReq]
    /\ arrived = [c \in 1..NConn |-> 0]
    /\ cend = [c \in 1..NConn |-> "open"]
    /\ resp = [c \in 1..NConn |-> <<>>]
    /\ srv = "serving"
    /\ active = 0
    /\ pc = "idle"
    /\ body = <<>>
    /\ request_data = NoRecord
    /\ REQUESTS_LOG = <<>>
    /\ clock = 1
    /\ console = <<>>
    /\ save \in BOOLEAN
    /\ file = <<>>
    /\ InspectIdle
    /\ FirstRun
    /\ mock = NoMock
    /\ SendIdle
    /\ StartIdle
    /\ logOwner = <<>>
    /\ readOrder = <<>>
    /\ gotBytes = [c \in 1..NConn |-> <<>>]
    /\ cutShort = {}
    /\ failed = {}
    /\ handled = {}
    /\ inflight = {}

\* ----------------------------------------------------------------- clients

\* A client connects and sends its request line and headers.  Connections
\* are numbered in the order they arrive.
Connect(c, r) ==
    /\ srv = "serving"
    /\ cstate[c] = "idle"
    /\ \A d \in Conns : d < c => cstate[d] # "idle"
    /\ cstate' = [cstate EXCEPT ![c] = "queued"]
    /\ creq' = [creq EXCEPT ![c] = r]
    /\ UNCHANGED <<arrived, cend, resp, srv, active, pc, handlerVars, REQUESTS_LOG,
                   clock, console, save, restVars, file, histVars>>

\* One more byte of the body reaches the server.
ClientSend(c) ==
    /\ cstate[c] \in {"queued", "active"}
    /\ cend[c] = "open"
    /\ arrived[c] < Len(creq[c].payload)
    /\ arrived' = [arrived EXCEPT ![c] = @ + 1]
    /\ UNCHANGED <<cstate, creq, cend, resp, srv, active, pc, handlerVars,
                   REQUESTS_LOG, clock, console, save, restVars, file, histVars>>

\* The client closes its socket (end of stream at the server).
ClientClose(c) ==
    /\ cstate[c] \in {"queued", "active"}
    /\ cend[c] = "open"
    /\ cend' = [cend EXCEPT ![c] = "fin"]
    /\ UNCHANGED <<cstate, creq, arrived, resp, srv, active, pc, handlerVars,
                   REQUESTS_LOG, clock, console, save, restVars, file, histVars>>

\* The client aborts the connection (connection reset at the server).
ClientReset(c) ==
    /\ cstate[c] \in {"queued", "active"}
    /\ cend[c] = "open"
    /\ cend' = [cend EXCEPT ![c] = "rst"]
    /\ UNCHANGED <<cstate, creq, arrived, resp, srv, active, pc, handlerVars,
                   REQUESTS_LOG, clock, console, save, restVars, file, histVars>>

\* ------------------------------------------------------------------ server

\* The serve loop is done with the active connection: shutdown_request.
Finish(c, ok) ==
    /\ cstate' = [cstate EXCEPT ![c] = "closed"]
    /\ active' = 0
    /\ pc' = "idle"
    /\ handled' = handled \cup {c}
    /\ failed' = IF ok THEN failed ELSE failed \cup {c}

\* What the client gets of a response the server writes: nothing once it is gone.
Deliver(c, r) ==
    resp' = [resp EXCEPT ![c] = IF cend[c] = "open" THEN Append(@, r) ELSE @]


\* A threading server: a connection is taken while a handler is running.
AcceptAnytime(c) ==
    /\ srv = "serving"
    /\ cstate[c] = "queued"
    /\ cstate' = [cstate EXCEPT ![c] = "active"]
    /\ active' = c
    /\ pc' = "dispatch"
    /\ UNCHANGED <<clientVars, resp, srv, handlerVars, REQUESTS_LOG, clock, console,
                   save, restVars, file, histVars>>
\* serve_forever takes the next connection of the listen queue; it does so
\* only between two requests.
Accept(c) ==
    /\ srv = "serving"
    /\ active = 0
    /\ cstate[c] = "queued"
    /\ \A d \in Conns : d < c => cstate[d] # "queued"
    /\ cstate' = [cstate EXCEPT ![c] = "active"]
    /\ active' = c
    /\ pc' = "dispatch"
    /\ UNCHANGED <<clientVars, resp, srv, handlerVars, REQUESTS_LOG, clock, console,
                   save, restVars, file, histVars>>

\* handle_one_request: read and parse the request line and the headers, then
\* look up do_<METHOD>.
Dispatch ==
    /\ srv = "serving"
    /\ pc = "dispatch"
    /\ LET c == active
           r == creq[c]
       IN  IF cend[c] = "rst"
           THEN \* readline raises ConnectionResetError
                /\ Finish(c, FALSE)
                /\ srv' = AfterHandlerError
                /\ UNCHANGED resp
           ELSE IF ~r.wellformed
           THEN /\ Finish(c, FALSE)
                /\ Deliver(c, ErrorPage(400))
                /\ UNCHANGED srv
           ELSE IF r.method \notin DoMethods
           THEN /\ Finish(c, FALSE)
                /\ Deliver(c, ErrorPage(501))
                /\ UNCHANGED srv
           ELSE /\ pc' = "read"
                /\ UNCHANGED <<cstate, active, handled, failed, resp, srv>>
    /\ UNCHANGED <<clientVars, handlerVars, REQUESTS_LOG, clock, console, save, restVars, file,
                   logOwner, readOrder, gotBytes, cutShort, inflight>>

\* rfile.read(n) returns: the n bytes are there, or the stream has ended.
ReadReturns(c, n) == arrived[c] >= n \/ cend[c] # "open"

\* Whether rfile.read(n) raises ConnectionResetError.  On a reset connection
\* it does when it has to go to the socket; when the n bytes had arrived
\* before the reset they may already sit in rfile's buffer, and then it
\* returns them.
ReadRaises(c) ==
    LET r == creq[c]
        n == IF ContentLengthRaises(r.headers) THEN 0 ELSE ContentLength(r.headers)
    IN  IF n > 0 /\ cend[c] = "rst"
        THEN (IF arrived[c] < n THEN {TRUE} ELSE {TRUE, FALSE})
        ELSE {FALSE}

\* Lines 35-44: Content-Length, the body read and its decoding, request_data.
ReadBody ==
    /\ srv = "serving"
    /\ pc = "read"
    /\ \E raisesRead \in ReadRaises(active) :
       LET c == active
           r == creq[c]
           raisesLen == ContentLengthRaises(r.headers)
           n == IF raisesLen THEN 0 ELSE ContentLength(r.headers)
           data == SubSeq(r.payload, 1, Min(n, arrived[c]))
           raisesDecode == n > 0 /\ ~ValidUtf8(data)
           text == IF n > 0 THEN DecodeUtf8(data) ELSE <<>>
       IN  /\ n > 0 => ReadReturns(c, n)
           /\ cutShort' = IF n > 0 /\ arrived[c] < n THEN cutShort \cup {c} ELSE cutShort
           /\ IF raisesLen \/ raisesRead \/ raisesDecode
              THEN /\ Finish(c, FALSE)
                   /\ srv' = AfterHandlerError
                   /\ gotBytes' = [gotBytes EXCEPT
                                     ![c] = IF raisesLen \/ raisesRead THEN <<>> ELSE data]
                   /\ UNCHANGED <<handlerVars, clock, readOrder>>
              ELSE /\ body' = text
                   /\ request_data' = MakeRecord(clock, r.method, r, text)
                   /\ clock' = clock + 1
                   /\ pc' = "append"
                   /\ gotBytes' = [gotBytes EXCEPT ![c] = IF n > 0 THEN data ELSE <<>>]
                   /\ readOrder' = Append(readOrder, c)
                   /\ UNCHANGED <<cstate, active, handled, failed, srv>>
    /\ UNCHANGED <<clientVars, resp, REQUESTS_LOG, console, save, restVars, file, logOwner,
                   inflight>>

\* Line 46.
AppendLog ==
    /\ srv = "serving"
    /\ pc = "append"
    /\ REQUESTS_LOG' = AppendRecord(REQUESTS_LOG, request_data)
    /\ logOwner' = Append(logOwner, active)
    /\ pc' = "trace"
    /\ UNCHANGED <<cstate, clientVars, resp, srv, active, handlerVars, clock, console,
                   save, restVars, file, readOrder, gotBytes, cutShort, failed, handled, inflight>>

\* Lines 49-50: the trace line (method, path, header count, body size).  The
\* body preview of lines 52-59 only prints and catches what it raises.
Trace ==
    /\ srv = "serving"
    /\ pc = "trace"
    /\ console' = Append(console, [method |-> request_data.method,
                                   path |-> request_data.path,
                                   nheaders |-> Len(creq[active].headers),
                                   nbody |-> Len(body)])
    /\ pc' = "respond"
    /\ UNCHANGED <<cstate, clientVars, resp, srv, active, handlerVars, REQUESTS_LOG,
                   clock, save, restVars, file, histVars>>

\* Lines 62-67, then the serve loop closes the connection.
Respond ==
    /\ srv = "serving"
    /\ pc = "respond"
    /\ Deliver(active, Ack(request_data))
    /\ Finish(active, TRUE)
    /\ UNCHANGED <<clientVars, srv, handlerVars, REQUESTS_LOG, clock, console, save,
                   restVars, file, logOwner, readOrder, gotBytes, cutShort, inflight>>

\* Ctrl+C: KeyboardInterrupt is raised in the one thread there is, wherever
\* it stands.  It is not an Exception: socketserver shuts the request down
\* and re-raises, the with-block closes the listening socket.
Interrupt ==
    /\ srv = "serving"
    /\ srv' = "interrupted"
    /\ inflight' = {c \in Conns : cstate[c] = "active"}
    /\ cstate' = [c \in Conns |-> IF cstate[c] \in {"queued", "active"}
                                  THEN "closed" ELSE cstate[c]]
    /\ active' = 0
    /\ pc' = "idle"
    /\ UNCHANGED <<clientVars, resp, handlerVars, REQUESTS_LOG, clock, console, save,
                   restVars, file, logOwner, readOrder, gotBytes, cutShort, failed, handled>>

\* Lines 104-110: the except branch.
Export ==
    /\ srv = "interrupted"
    /\ srv' = "exited"
    /\ file' = IF save /\ REQUESTS_LOG # <<>> THEN JsonDump(REQUESTS_LOG) ELSE file
    /\ UNCHANGED <<cstate, clientVars, resp, active, pc, handlerVars, REQUESTS_LOG,
                   clock, console, save, restVars, logOwner, readOrder, gotBytes, cutShort,
                   failed, handled, inflight>>

Next ==
    \/ \E c \in Conns, r \in RequestMenu : Connect(c, r)
    \/ \E c \in Conns : ClientSend(c)
    \/ \E c \in Conns : ClientClose(c)
    \/ \E c \in Conns : ClientReset(c)
    \/ \E c \in Conns : Accept(c)
    \/ Dispatch
    \/ ReadBody
    \/ AppendLog
    \/ Trace
    \/ Respond
    \/ Interrupt
    \/ Export

Spec == Init /\ [][Next]_vars

\* ------------------------------------------------- the burst specification

\* BurstK clients have connected and sent their whole request before the
\* server takes the first of them: all are in flight at once.
BurstInit ==
    /\ cstate = [c \in 1..BurstK |-> "queued"]
    /\ creq \in [1..BurstK -> BurstMenu]
    /\ arrived = [c \in 1..BurstK |-> Len(creq[c].payload)]
    /\ cend = [c \in 1..BurstK |-> "open"]
    /\ resp = [c \in 1..BurstK |-> <<>>]
    /\ srv = "serving"
    /\ active = 0
    /\ pc = "idle"
    /\ body = <<>>
    /\ request_data = NoRecord
    /\ REQUESTS_LOG = <<>>
    /\ clock = 1
    /\ console = <<>>
    /\ save = FALSE
    /\ file = <<>>
    /\ InspectIdle
    /\ FirstRun
    /\ mock = NoMock
    /\ SendIdle
    /\ StartIdle
    /\ logOwner = <<>>
    /\ readOrder = <<>>
    /\ gotBytes = [c \in 1..BurstK |-> <<>>]
    /\ cutShort = {}
    /\ failed = {}
    /\ handled = {}
    /\ inflight = {}

BurstNext ==
    \/ \E c \in Conns : Accept(c)
    \/ Dispatch
    \/ ReadBody
    \/ AppendLog
    \/ Trace
    \/ Respond

BurstSpec == BurstInit /\ [][BurstNext]_vars

\* ---------------------------------------------- the liveness specification

\* The listener is left running (no Ctrl+C).  The serve loop keeps taking
\* steps, and every client goes on: it sends the rest of its body or it
\* disconnects.
LiveInit == Init /\ save = FALSE

LiveNext ==
    \/ \E c \in Conns, r \in LiveMenu : Connect(c, r)
    \/ \E c \in Conns : ClientSend(c)
    \/ \E c \in Conns : ClientClose(c)
    \/ \E c \in Conns : ClientReset(c)
    \/ \E c \in Conns : Accept(c)
    \/ Dispatch
    \/ ReadBody
    \/ AppendLog
    \/ Trace
    \/ Respond

ServerStep ==
    \/ \E c \in Conns : Accept(c)
    \/ Dispatch
    \/ ReadBody
    \/ AppendLog
    \/ Trace
    \/ Respond

ClientStep(c) == ClientSend(c) \/ ClientClose(c) \/ ClientReset(c)

LiveSpec ==
    /\ LiveInit
    /\ [][LiveNext]_vars
    /\ WF_vars(ServerStep)
    /\ \A c \in 1..NConn : WF_vars(ClientStep(c))

\* ------------------------------------------- the export/load specification

\* Longest of the short runs, and the length of the long runs.
SmallLog == 2
BigLog == 101

\* Requests the listener records whole.
CapturedMenu == {BasePost, PlainGet, TwoByteChar, DupHeader}

\* Runs of requests: every short one, and long ones alternating two requests.
SampleRuns ==
    UNION {[1..n -> CapturedMenu] : n \in 0..SmallLog}
        \cup {[c \in 1..BigLog |-> IF c % 2 = 1 THEN r1 ELSE r2] :
                 r1 \in CapturedMenu, r2 \in CapturedMenu}

\* The record the handler makes of the c-th request of a run.
RecordOfRun(rs, c) == MakeRecord(c, rs[c].method, rs[c], DecodeUtf8(rs[c].payload))

\* The listener has served the requests of a run one after the other, each
\* sent whole by a client that waited for its answer, and is idle.
RoundTripInit ==
    \E rs \in SampleRuns :
        LET n == Len(rs) IN
        /\ cstate = [c \in 1..n |-> "closed"]
        /\ creq = rs
        /\ arrived = [c \in 1..n |-> Len(rs[c].payload)]
        /\ cend = [c \in 1..n |-> "open"]
        /\ resp = [c \in 1..n |-> <<Ack(RecordOfRun(rs, c))>>]
        /\ srv = "serving"
        /\ active = 0
        /\ pc = "idle"
        /\ body = IF n = 0 THEN <<>> ELSE RecordOfRun(rs, n).body
        /\ request_data = IF n = 0 THEN NoRecord ELSE RecordOfRun(rs, n)
        /\ REQUESTS_LOG = [c \in 1..n |-> RecordOfRun(rs, c)]
        /\ clock = n + 1
        /\ console = [c \in 1..n |-> [method |-> rs[c].method, path |-> rs[c].path,
                                      nheaders |-> Len(rs[c].headers),
                                      nbody |-> Len(RecordOfRun(rs, c).body)]]
        /\ save \in BOOLEAN
        /\ file = <<>>
        /\ InspectIdle
        /\ FirstRun
        /\ mock = NoMock
        /\ SendIdle
        /\ StartIdle
        /\ logOwner = [c \in 1..n |-> c]
        /\ readOrder = [c \in 1..n |-> c]
        /\ gotBytes = [c \in 1..n |-> rs[c].payload]
        /\ cutShort = {}
        /\ failed = {}
        /\ handled = 1..n
        /\ inflight = {}

\* Lines 209-211 of `inspect`, run in a process of its own on the save path:
\* open raises when there is no file, json.load when the text does not
\* parse; the except clause of lines 232-233 prints the error.
Load ==
    /\ srv \in {"exited", "none"}
    /\ ipc = "none"
    /\ IF file # <<>> /\ JsonValid(file)
       THEN /\ loaded' = LoadedOk(JsonLoad(file))
            /\ ipc' = "header"
            /\ console' = console
       ELSE /\ loaded' = LoadError
            /\ ipc' = "failed"
            /\ console' = Append(console, [kind |-> "error"])
    /\ UNCHANGED <<cstate, clientVars, resp, srv, active, pc, handlerVars, REQUESTS_LOG,
                   clock, save, file, table, runVars, mock, sendVars, startVars, histVars>>

RoundTripNext ==
    \/ Interrupt
    \/ Export
    \/ Load

RoundTripSpec == RoundTripInit /\ [][RoundTripNext]_vars

\* ---------------------------------------------------- the mock specification

PatchReq == Req("PATCH", <<Hdr("Content-Length", "2")>>, <<"a", "a">>)
PutOther == [Req("PUT", <<Hdr("Content-Length", "2")>>, <<"a", "a">>)
                EXCEPT !.path = "/other"]

\* The requests sent to the mock server.
MockMenu == {BasePost, PlainGet, PatchReq, PutOther, BadLength}

\* The settings of a run: the defaults, and a status, a text and a delay.
MockConfigs == {[status |-> 200, response |-> <<"a">>, delay |-> 0],
                [status |-> 418, response |-> <<"e-acute", "a">>, delay |-> 1]}

MockInit ==
    /\ cstate = [c \in 1..NConn |-> "idle"]
    /\ creq = [c \in 1..NConn |-> NoReq]
    /\ arrived = [c \in 1..NConn |-> 0]
    /\ cend = [c \in 1..NConn |-> "open"]
    /\ resp = [c \in 1..NConn |-> <<>>]
    /\ srv = "serving"
    /\ active = 0
    /\ pc = "idle"
    /\ body = <<>>
    /\ request_data = NoRecord
    /\ REQUESTS_LOG = <<>>
    /\ clock = 1
    /\ console = <<>>
    /\ save = FALSE
    /\ file = <<>>
    /\ InspectIdle
    /\ FirstRun
    /\ mock \in MockConfigs
    /\ SendIdle
    /\ StartIdle
    /\ logOwner = <<>>
    /\ readOrder = <<>>
    /\ gotBytes = [c \in 1..NConn |-> <<>>]
    /\ cutShort = {}
    /\ failed = {}
    /\ handled = {}
    /\ inflight = {}

\* handle_one_request under MockHandler: the request line and the headers
\* are parsed, then do_<METHOD> is looked up.
MockDispatch ==
    /\ srv = "serving"
    /\ pc = "dispatch"
    /\ LET c == active
           r == creq[c]
       IN  IF cend[c] = "rst"
           THEN /\ Finish(c, FALSE)
                /\ srv' = AfterHandlerError
                /\ UNCHANGED resp
           ELSE IF ~r.wellformed
           THEN /\ Finish(c, FALSE)
                /\ Deliver(c, ErrorPage(400))
                /\ UNCHANGED srv
           ELSE IF r.method \notin MockMethods
           THEN /\ Finish(c, FALSE)
                /\ Deliver(c, ErrorPage(501))
                /\ UNCHANGED srv
           ELSE /\ pc' = IF mock.delay > 0 THEN "sleep" ELSE "respond"
                /\ UNCHANGED <<cstate, active, handled, failed, resp, srv>>
    /\ UNCHANGED <<clientVars, handlerVars, REQUESTS_LOG, clock, console, save, restVars,
                   file, logOwner, readOrder, gotBytes, cutShort, inflight>>

\* Lines 177-178: time.sleep(delay) returns.
MockSleep ==
    /\ srv = "serving"
    /\ pc = "sleep"
    /\ pc' = "respond"
    /\ UNCHANGED <<cstate, clientVars, resp, srv, active, handlerVars, REQUESTS_LOG,
                   clock, console, save, restVars, file, histVars>>

\* Lines 180-185: the response and the trace line; rfile is never read, so
\* the handler takes none of the body.  Then the serve loop closes the
\* connection.
MockRespond ==
    /\ srv = "serving"
    /\ pc = "respond"
    /\ Deliver(active, MockReply(mock))
    /\ console' = Append(console, [method |-> creq[active].method,
                                   path |-> creq[active].path,
                                   status |-> mock.status])
    /\ Finish(active, TRUE)
    /\ UNCHANGED <<clientVars, srv, handlerVars, REQUESTS_LOG, clock, save, restVars,
                   file, logOwner, readOrder, gotBytes, cutShort, inflight>>

\* Lines 201-202: the except branch of mock_server.
MockStop ==
    /\ srv = "interrupted"
    /\ srv' = "exited"
    /\ UNCHANGED <<cstate, clientVars, resp, active, pc, handlerVars, REQUESTS_LOG,
                   clock, console, save, restVars, file, histVars>>

MockNext ==
    \/ \E c \in Conns, r \in MockMenu : Connect(c, r)
    \/ \E c \in Conns : ClientSend(c)
    \/ \E c \in Conns : ClientClose(c)
    \/ \E c \in Conns : ClientReset(c)
    \/ \E c \in Conns : Accept(c)
    \/ MockDispatch
    \/ MockSleep
    \/ MockRespond
    \/ Interrupt
    \/ MockStop

MockSpec == MockInit /\ [][MockNext]_vars

\* ---------------------------------------------------- the send specification

\* --header options.
ContentTypeOpt == <<"Content-Type", ":", " ", "text/plain">>
LowerCaseOpt == <<"content-type", ":", "text/xml", " ">>
UrlOpt == <<"X-Url", ":", " ", "http", ":", "//x">>
NoColonOpt == <<"X-Url">>

HeaderMenu == {<<>>, <<ContentTypeOpt>>, <<LowerCaseOpt>>, <<UrlOpt>>,
               <<UrlOpt, ContentTypeOpt>>, <<NoColonOpt>>}

\* --data: not given (None), or the text given.
NoData == [given |-> FALSE]
Data(text) == [given |-> TRUE, text |-> text]

\* `if data`: None and the empty string are both false.
Truthy(d) == d.given /\ d.text # <<>>

\* --data: not given, the empty text, a JSON object, a text cut short.
DataMenu == {NoData, Data(<<>>), Data(<<"{", "k", "v", "}">>), Data(<<"{", "k">>)}

SendOptions ==
    [method : {"POST", "post", "GET", "DELETE", "PATCH"},
     data : DataMenu,
     header : HeaderMenu,
     repeat : 1..MaxRepeat,
     delay : {0, 1}]

\* What a call to requests comes to: a response with a status, or an
\* exception (connection refused, timeout).
Outcomes == {[kind |-> "response", status |-> 200],
             [kind |-> "response", status |-> 500],
             [kind |-> "error"]}

\* The state the server commands keep, which `send` never touches.
serverVars == <<cstate, clientVars, resp, srv, active, pc, handlerVars, REQUESTS_LOG,
                save, file, runVars, mock, startVars, histVars>>

SendInit ==
    /\ cstate = <<>>
    /\ creq = <<>>
    /\ arrived = <<>>
    /\ cend = <<>>
    /\ resp = <<>>
    /\ srv = "none"
    /\ active = 0
    /\ pc = "idle"
    /\ body = <<>>
    /\ request_data = NoRecord
    /\ REQUESTS_LOG = <<>>
    /\ clock = 1
    /\ console = <<>>
    /\ save = FALSE
    /\ file = <<>>
    /\ InspectIdle
    /\ FirstRun
    /\ mock = NoMock
    /\ opts \in SendOptions
    /\ headers = <<>>
    /\ sendBody = NoBody
    /\ iter = 0
    /\ spc = "headers"
    /\ calls = <<>>
    /\ sleeps = <<>>
    /\ StartIdle
    /\ logOwner = <<>>
    /\ readOrder = <<>>
    /\ gotBytes = <<>>
    /\ cutShort = {}
    /\ failed = {}
    /\ handled = {}
    /\ inflight = {}

\* Lines 124-127.  The unpacking of line 126 raises ValueError on an option
\* without a colon, which ends the command.
BuildHeaders ==
    /\ spc = "headers"
    /\ IF \A n \in DOMAIN opts.header : HasColon(opts.header[n])
       THEN /\ headers' = HeadersFrom(DefaultHeaders, opts.header, 1)
            /\ spc' = "body"
       ELSE /\ headers' = DefaultHeaders
            /\ spc' = "failed"
    /\ UNCHANGED <<serverVars, inspectVars, clock, console, opts, sendBody, iter, calls, sleeps>>

\* Lines 129-132: the body, then the banner.  json.loads raises on a text
\* that is not JSON, which ends the command.
BuildBody ==
    /\ spc = "body"
    /\ IF Truthy(opts.data) /\ JsonLoadsRaises(opts.data.text)
       THEN /\ spc' = "failed"
            /\ UNCHANGED <<sendBody, console>>
       ELSE /\ sendBody' = IF Truthy(opts.data) THEN JsonLoads(opts.data.text) ELSE Marker(clock)
            /\ console' = Append(console, [kind |-> "banner", method |-> opts.method])
            /\ spc' = "attempt"
    /\ clock' = clock + 1
    /\ UNCHANGED <<serverVars, inspectVars, opts, headers, iter, calls, sleeps>>

\* Lines 135-158: one pass of the loop body up to the sleep.
Attempt ==
    /\ spc = "attempt"
    /\ iter < opts.repeat
    /\ \E o \in Outcomes :
        LET m == Upper(opts.method)
            call == [method |-> m, headers |-> headers, hasJson |-> CarriesBody(m),
                     json |-> IF CarriesBody(m) THEN sendBody ELSE NoBody,
                     at |-> clock, outcome |-> o]
        IN  /\ calls' = Append(calls, call)
            /\ IF o.kind = "response"
               THEN /\ console' = Append(console, [kind |-> "status", status |-> o.status])
                    /\ IF opts.repeat > 1 /\ iter < opts.repeat - 1 /\ opts.delay > 0
                       THEN spc' = "sleep" /\ iter' = iter
                       ELSE spc' = "attempt" /\ iter' = iter + 1
               ELSE /\ console' = Append(console, [kind |-> "error"])
                    /\ spc' = "attempt"
                    /\ iter' = IndexAfterError(iter, opts.repeat)
    /\ clock' = clock + 1
    /\ UNCHANGED <<serverVars, inspectVars, opts, headers, sendBody, sleeps>>

\* Line 155: time.sleep(delay) returns and the loop goes on.
EndSleep ==
    /\ spc = "sleep"
    /\ sleeps' = Append(sleeps, iter)
    /\ iter' = iter + 1
    /\ spc' = "attempt"
    /\ clock' = clock + 1
    /\ UNCHANGED <<serverVars, inspectVars, console, opts, headers, sendBody, calls>>

\* Lines 160-161: the loop is over.
SendEnd ==
    /\ spc = "attempt"
    /\ iter >= opts.repeat
    /\ console' = IF opts.repeat > 1
                  THEN Append(console, [kind |-> "sent", count |-> opts.repeat])
                  ELSE console
    /\ spc' = "done"
    /\ UNCHANGED <<serverVars, inspectVars, clock, opts, headers, sendBody, iter, calls, sleeps>>

SendNext ==
    \/ BuildHeaders
    \/ BuildBody
    \/ Attempt
    \/ EndSleep
    \/ SendEnd

SendSpec == SendInit /\ [][SendNext]_vars

\* --------------------------------------------------- the start specification

\* The requests sent to a server that has started.
StartMenu == {BasePost, PatchReq}

\* `listen` (mock = NoMock) or `mock` has been invoked and has not yet built
\* its TCPServer; the port may be held by another server.
StartInit ==
    /\ cstate = [c \in 1..NConn |-> "idle"]
    /\ creq = [c \in 1..NConn |-> NoReq]
    /\ arrived = [c \in 1..NConn |-> 0]
    /\ cend = [c \in 1..NConn |-> "open"]
    /\ resp = [c \in 1..NConn |-> <<>>]
    /\ srv = "starting"
    /\ active = 0
    /\ pc = "idle"
    /\ body = <<>>
    /\ request_data = NoRecord
    /\ REQUESTS_LOG = <<>>
    /\ clock = 1
    /\ console = <<>>
    /\ save \in BOOLEAN
    /\ file = <<>>
    /\ InspectIdle
    /\ FirstRun
    /\ mock \in {NoMock} \cup MockConfigs
    /\ mock # NoMock => save = FALSE
    /\ SendIdle
    /\ portBusy \in BOOLEAN
    /\ exitCode = 0
    /\ logOwner = <<>>
    /\ readOrder = <<>>
    /\ gotBytes = [c \in 1..NConn |-> <<>>]
    /\ cutShort = {}
    /\ failed = {}
    /\ handled = {}
    /\ inflight = {}

\* Lines 95-102 and 194-200: the banner, then the TCPServer constructor.
\* OSError is not a KeyboardInterrupt: it leaves the command, which ends
\* with a traceback and exit status 1.
Bind ==
    /\ srv = "starting"
    /\ IF BindRaises(portBusy)
       THEN /\ srv' = "failed"
            /\ exitCode' = 1
            /\ console' = console \o <<[kind |-> "banner"], [kind |-> "traceback"]>>
       ELSE /\ srv' = "serving"
            /\ exitCode' = exitCode
            /\ console' = Append(console, [kind |-> "banner"])
    /\ UNCHANGED <<cstate, clientVars, resp, active, pc, handlerVars, REQUESTS_LOG,
                   clock, save, file, inspectVars, runVars, mock, sendVars, portBusy, histVars>>

StartNext ==
    \/ Bind
    \/ \E c \in Conns, r \in StartMenu : Connect(c, r)
    \/ \E c \in Conns : ClientSend(c)
    \/ \E c \in Conns : ClientClose(c)
    \/ \E c \in Conns : ClientReset(c)
    \/ \E c \in Conns : Accept(c)
    \/ mock = NoMock /\ Dispatch
    \/ mock = NoMock /\ ReadBody
    \/ mock = NoMock /\ AppendLog
    \/ mock = NoMock /\ Trace
    \/ mock = NoMock /\ Respond
    \/ mock = NoMock /\ Export
    \/ mock # NoMock /\ MockDispatch
    \/ mock # NoMock /\ MockSleep
    \/ mock # NoMock /\ MockRespond
    \/ mock # NoMock /\ MockStop
    \/ Interrupt

StartSpec == StartInit /\ [][StartNext]_vars

\* ------------------------------------------------- the inspect specification

LongPut == [Req("PUT", <<>>, <<>>) EXCEPT !.path = "/long"]

\* Requests whose records the inspected files hold.
InspectMenu == {BasePost, TwoByteChar, LongPut}

\* The export of the log of each short run.
GoodFiles ==
    {JsonDump([c \in 1..Len(rs) |-> RecordOfRun(rs, c)]) :
        rs \in UNION {[1..n -> InspectMenu] : n \in 0..SmallLog}}

\* A file whose text stops before the closing bracket.
TruncatedText(f) == SubSeq(f, 1, Len(f) - 1)

\* A file whose k-th object lacks a member.
Without(f, k, field) ==
    [f EXCEPT ![k + 1] =
        [tok |-> "object",
         members |-> [m \in (DOMAIN f[k + 1].members) \ {field} |-> f[k + 1].members[m]]]]

\* The files `inspect` is run on: none at the path, exports, and damaged ones.
InspectFiles ==
    {<<>>} \cup GoodFiles \cup {TruncatedText(f) : f \in GoodFiles}
        \cup UNION {{Without(f, k, field) : k \in 1..(Len(f) - 2),
                                           field \in {"method", "body"}} :
                       f \in GoodFiles}

InspectInit ==
    /\ cstate = <<>>
    /\ creq = <<>>
    /\ arrived = <<>>
    /\ cend = <<>>
    /\ resp = <<>>
    /\ srv = "none"
    /\ active = 0
    /\ pc = "idle"
    /\ body = <<>>
    /\ request_data = NoRecord
    /\ REQUESTS_LOG = <<>>
    /\ clock = 1
    /\ console = <<>>
    /\ save = FALSE
    /\ file \in InspectFiles
    /\ InspectIdle
    /\ FirstRun
    /\ mock = NoMock
    /\ SendIdle
    /\ StartIdle
    /\ logOwner = <<>>
    /\ readOrder = <<>>
    /\ gotBytes = <<>>
    /\ cutShort = {}
    /\ failed = {}
    /\ handled = {}
    /\ inflight = {}

\* Line 213: the heading with the number of loaded items.
Heading ==
    /\ ipc = "header"
    /\ console' = Append(console, [kind |-> "saved", count |-> Len(loaded.data)])
    /\ ipc' = "rows"
    /\ UNCHANGED <<serverVars, clock, sendVars, loaded, table>>

\* Lines 221-228: one pass of the loop.  A KeyError leaves the try block for
\* the except clause of lines 232-233; the Table built so far is dropped.
AddRow ==
    /\ ipc = "rows"
    /\ Len(table) < Len(loaded.data)
    /\ LET k == Len(table) + 1 IN
       IF RowRaises(loaded.data[k])
       THEN /\ ipc' = "failed"
            /\ console' = Append(console, [kind |-> "error"])
            /\ table' = table
       ELSE /\ table' = Append(table, Row(k, loaded.data[k]))
            /\ UNCHANGED <<ipc, console>>
    /\ UNCHANGED <<serverVars, clock, sendVars, loaded>>

\* Line 231: the table is printed once every row is in it.
PrintTable ==
    /\ ipc = "rows"
    /\ Len(table) = Len(loaded.data)
    /\ console' = Append(console, [kind |-> "table", rows |-> table])
    /\ ipc' = "done"
    /\ UNCHANGED <<serverVars, clock, sendVars, loaded, table>>

InspectNext ==
    \/ Load
    \/ Heading
    \/ AddRow
    \/ PrintTable

InspectSpec == InspectInit /\ [][InspectNext]_vars

\* --------------------------------------------------- the rerun specification

\* `listen` runs of one process.
MaxRuns == 2

\* The requests sent to the listener of each run.
RerunMenu == {BasePost, PlainGet}

\* start_listener is called again in the process whose earlier call has
\* returned (the hosting program invokes the command a second time): new
\* options, a new TCPServer and new clients, while the module and its
\* REQUESTS_LOG are those of the earlier run.  The records there belong to
\* no connection of this run.
Rerun ==
    /\ srv = "exited"
    /\ run < MaxRuns
    /\ run' = run + 1
    /\ runStart' = clock
    /\ srv' = "serving"
    /\ cstate' = [c \in Conns |-> "idle"]
    /\ creq' = [c \in Conns |-> NoReq]
    /\ arrived' = [c \in Conns |-> 0]
    /\ cend' = [c \in Conns |-> "open"]
    /\ resp' = [c \in Conns |-> <<>>]
    /\ active' = 0
    /\ pc' = "idle"
    /\ body' = <<>>
    /\ request_data' = NoRecord
    /\ save' \in BOOLEAN
    /\ file' = <<>>
    /\ logOwner' = [i \in DOMAIN logOwner |-> 0]
    /\ readOrder' = <<>>
    /\ gotBytes' = [c \in Conns |-> <<>>]
    /\ cutShort' = {}
    /\ failed' = {}
    /\ handled' = {}
    /\ inflight' = {}
    /\ UNCHANGED <<REQUESTS_LOG, clock, console, inspectVars, mock, sendVars, startVars>>

RerunNext ==
    \/ \E c \in Conns, r \in RerunMenu : Connect(c, r)
    \/ \E c \in Conns : ClientSend(c)
    \/ \E c \in Conns : ClientClose(c)
    \/ \E c \in Conns : ClientReset(c)
    \/ \E c \in Conns : Accept(c)
    \/ Dispatch
    \/ ReadBody
    \/ AppendLog
    \/ Trace
    \/ Respond
    \/ Interrupt
    \/ Export
    \/ Rerun

RerunSpec == Init /\ [][RerunNext]_vars

\* ------------------------------------------------------------------ claims

Closed == {c \in Conns : cstate[c] = "closed"}

\* The client sent a whole, parsable HTTP request and stayed connected.
Complete(c) ==
    /\ creq[c].wellformed
    /\ cend[c] = "open"
    /\ arrived[c] = Len(creq[c].payload)

RecordsOf(c) == {i \in DOMAIN REQUESTS_LOG : logOwner[i] = c}

\* Record i holds what connection c sent.
SameAsSent(i, c) ==
    /\ REQUESTS_LOG[i].method = creq[c].method
    /\ REQUESTS_LOG[i].path = creq[c].path
    /\ REQUESTS_LOG[i].headers = creq[c].headers
    /\ EncodeUtf8(REQUESTS_LOG[i].body) = creq[c].payload

\* The client of c received the 200 acknowledgement carrying record i's timestamp.
AckedWith(c, i) ==
    resp[c] = <<[code |-> 200, ctype |-> "application/json",
                 body |-> [status |-> "received",
                           timestamp |-> REQUESTS_LOG[i].timestamp]]>>

Quiet == srv = "serving" /\ active = 0 /\ \A c \in Conns : cstate[c] \in {"idle", "closed"}

\* C1 (capture completeness): once the listener has dealt with the N requests
\* sent to it (each a whole request of a client that stayed connected), the
\* log holds exactly N records, one per request, each with the method, path,
\* headers and body that were sent.
C1_CaptureCompleteness ==
    (Quiet /\ \A c \in Closed : Complete(c))
        => /\ Len(REQUESTS_LOG) = Cardinality(Closed)
           /\ \A c \in Closed : \E i \in RecordsOf(c) : SameAsSent(i, c)

\* C2 (no method is rejected): a request whose method is none of GET, POST,
\* PUT, DELETE, PATCH is appended to the log with its method as received and
\* gets the same 200 acknowledgement.
C2_NoMethodRejected ==
    \A c \in handled :
        (Complete(c) /\ creq[c].method \notin {"GET", "POST", "PUT", "DELETE", "PATCH"})
            => \E i \in RecordsOf(c) :
                   /\ REQUESTS_LOG[i].method = creq[c].method
                   /\ AckedWith(c, i)

\* C3 (fixed acknowledgement): every request the listener has handled was
\* answered 200, application/json, {"status": "received", "timestamp": T}
\* with T the timestamp of the record appended for that request, whatever
\* the request holds.
C3_FixedAcknowledgement ==
    \A c \in handled : Complete(c) => \E i \in RecordsOf(c) : AckedWith(c, i)

\* C4 (missing or unparsable Content-Length is a zero-length body): such a
\* request gets a record with an empty body and the 200 acknowledgement.
C4_LengthDefaultsToZero ==
    \A c \in handled :
        ( /\ Complete(c)
          /\ creq[c].method \in {"GET", "POST", "PUT", "DELETE", "PATCH"}
          /\ \A k \in DOMAIN creq[c].headers :
                 creq[c].headers[k].name = "Content-Length"
                     => creq[c].headers[k].value \notin {"0", "1", "2", "-1"} )
            => \E i \in RecordsOf(c) :
                   /\ REQUESTS_LOG[i].body = <<>>
                   /\ AckedWith(c, i)

\* C5 (a malformed request never ends the serve loop): the step in which the
\* handling of a request fails leaves the listener serving, and from then on
\* every connection waiting in the listen queue is eventually handled.
C5_ServeLoopSurvives ==
    /\ [][failed' # failed => srv' = "serving"]_vars
    /\ \A c \in 1..NConn :
           (failed # {} /\ cstate[c] = "queued") ~> (c \in handled)

\* A request's handling failed and a connection that came later was handled.
C5_Witness ==
    \E c \in failed : \E d \in handled : d > c /\ resp[d] # <<>>

\* The bytes are the UTF-8 encoding of some text.
IsTextBytes(bs) ==
    \E t \in UNION {[1..k -> {"a", "e-acute"}] : k \in 0..2} : EncodeUtf8(t) = bs

\* The client of c went away before the body it declared had arrived.
Truncated(c) == c \in handled /\ c \in cutShort

\* ... by closing its socket: the server's read met the end of the stream.
TruncatedByClose(c) == Truncated(c) /\ cend[c] = "fin"

\* C6 as stated (a client gone before its declared body arrived): a record is
\* appended holding the method, the path, the headers and the body bytes
\* that were read.
C6_TruncatedBodyRecorded ==
    \A c \in Conns :
        TruncatedByClose(c)
            => \E i \in RecordsOf(c) :
                   /\ REQUESTS_LOG[i].method = creq[c].method
                   /\ REQUESTS_LOG[i].path = creq[c].path
                   /\ REQUESTS_LOG[i].headers = creq[c].headers
                   /\ EncodeUtf8(REQUESTS_LOG[i].body) = gotBytes[c]

\* C6 as amended: when the stream ended (not a reset) and the bytes read are
\* UTF-8 text, one record is appended holding the method, the path, the
\* headers and those bytes decoded; when the connection was reset or the bytes read are
\* not UTF-8 text (the body was cut inside a character), no record is
\* appended.  Either way the connection is closed and never taken again.
C6_TruncatedBodyRecordedIfText ==
    \A c \in Conns :
        Truncated(c)
            => /\ cstate[c] = "closed"
               /\ Cardinality(RecordsOf(c)) <= 1
               /\ IF cend[c] = "fin" /\ IsTextBytes(gotBytes[c])
                  THEN \E i \in RecordsOf(c) :
                           /\ REQUESTS_LOG[i].method = creq[c].method
                           /\ REQUESTS_LOG[i].path = creq[c].path
                           /\ REQUESTS_LOG[i].headers = creq[c].headers
                           /\ EncodeUtf8(REQUESTS_LOG[i].body) = gotBytes[c]
                  ELSE RecordsOf(c) = {}

\* A body cut after its first byte was recorded with that byte.
C6_Witness ==
    \E c \in Conns :
        /\ Truncated(c)
        /\ gotBytes[c] = <<"a">>
        /\ \E i \in RecordsOf(c) : REQUESTS_LOG[i].body = <<"a">>

\* C7 (append atomicity under a burst): with the K connections of the burst
\* all in flight at once, the final log has exactly K records, one per
\* connection, each whole.
C7_BurstAllCaptured ==
    (active = 0 /\ \A c \in Conns : cstate[c] = "closed")
        => /\ Len(REQUESTS_LOG) = Cardinality(Conns)
           /\ \A c \in Conns : Cardinality(RecordsOf(c)) = 1
           /\ \A c \in Conns : \E i \in RecordsOf(c) : SameAsSent(i, c)

\* The record's timestamp is taken when its body read completes: the k-th
\* completed read stamps k.
InReadOrder ==
    /\ \A i \in DOMAIN REQUESTS_LOG :
           /\ REQUESTS_LOG[i].timestamp \in DOMAIN readOrder
           /\ readOrder[REQUESTS_LOG[i].timestamp] = logOwner[i]
    /\ \A i, j \in DOMAIN REQUESTS_LOG :
           i < j => REQUESTS_LOG[i].timestamp < REQUESTS_LOG[j].timestamp

\* C8 (log order): the records stand in the order in which their bodies
\* finished being read, and a step only ever extends the log: the log before
\* the step is a prefix of the log after it.
C8_LogInReadOrder ==
    [][InReadOrder' /\ IsPrefix(REQUESTS_LOG, REQUESTS_LOG')]_vars

\* Two connections were captured, the second one's body having arrived whole
\* while the first was still being handled.
C8_Witness ==
    /\ Len(REQUESTS_LOG) = 2
    /\ logOwner = <<1, 2>>
    /\ readOrder = <<1, 2>>
    /\ REQUESTS_LOG[2].body # <<>>

\* The handler stands in rfile.read, which has not returned.
HandlerBlocked == pc = "read" /\ ~ENABLED ReadBody

\* C9 (a slow client stalls nobody): while a handler is blocked, the server
\* still accepts the next connection of the listen queue.
C9_SlowClientStallsNobody ==
    \A c \in Conns :
        ( /\ srv = "serving"
          /\ HandlerBlocked
          /\ cstate[c] = "queued"
          /\ \A d \in Conns : d < c => cstate[d] # "queued" )
            => ENABLED Accept(c)

\* C10 (stop lets in-flight requests finish): after the interrupt, every
\* request that was being handled has its record in the log and its client
\* has the response; a written export holds those records.
C10_InFlightFinishOnStop ==
    srv \in {"interrupted", "exited"}
        => \A c \in inflight :
               Complete(c)
                   => /\ RecordsOf(c) # {}
                      /\ resp[c] # <<>>
                      /\ file # <<>> => \E i \in 1..(Len(file) - 2) : logOwner[i] = c

\* C11: once an interrupted `listen` has ended, the export file holds the
\* dump of the capture log if a save path was given, whatever the length of
\* the log (zero included), and no file exists if none was given.
C11_ExportOnInterrupt ==
    /\ srv = "exited" /\ save => file = JsonDump(REQUESTS_LOG)
    /\ ~save => file = <<>>

\* `inspect` has loaded the file a `listen` run with a save path left.
LoadedAfterExport == save /\ loaded # NotLoaded

\* C12: loading the export of a capture log gives back the log, record for
\* record and field for field, for a log of any size (0, 1, more than 100).
C12_RoundTrip == LoadedAfterExport => loaded = LoadedOk(REQUESTS_LOG)

\* The same law for the logs the listener does write to the file.
RoundTripOfWrittenFile ==
    LoadedAfterExport /\ REQUESTS_LOG # <<>> => loaded = LoadedOk(REQUESTS_LOG)

ExportFields == {"timestamp", "method", "path", "headers", "body"}

\* C13: a written export file is one JSON array holding one object per
\* record of the capture log, in log order, and each object has exactly the
\* fields timestamp, method, path, headers and body, with the record's values.
C13_ExportIsFullDump ==
    file # <<>>
        => /\ JsonValid(file)
           /\ Len(JsonLoad(file)) = Len(REQUESTS_LOG)
           /\ \A i \in DOMAIN REQUESTS_LOG :
                  /\ DOMAIN file[i + 1].members = ExportFields
                  /\ JsonLoad(file)[i] = REQUESTS_LOG[i]

\* An export of two records was written, one of them with a non-ASCII body.
C13_Witness ==
    /\ srv = "exited"
    /\ file # <<>>
    /\ Len(REQUESTS_LOG) = 2
    /\ \E i \in DOMAIN REQUESTS_LOG : "e-acute" \in Range(REQUESTS_LOG[i].body)

\* The client of c stayed connected until the server was done with it.
Stayed(c) == c \in handled /\ cend[c] = "open"

\* C14: the mock server answers every request, whatever its method, path,
\* headers and body, with exactly the configured status and body.
C14_MockDeterminism ==
    \A c \in Conns :
        Stayed(c) /\ creq[c].wellformed => resp[c] = <<MockReply(mock)>>

\* The body length a request declares (0 when it declares none).
Declared(c) ==
    IF ContentLengthRaises(creq[c].headers) THEN 0 ELSE ContentLength(creq[c].headers)

\* C15: when the mock server has sent its response to a request that
\* declares a body, the handler has read all the declared bytes.
C15_MockDrainsBody ==
    \A c \in Conns :
        resp[c] # <<>> /\ Declared(c) > 0
            => gotBytes[c] = SubSeq(creq[c].payload, 1, Declared(c))

\* The lines `send` printed for its attempts, in order.
AttemptLines == SelectSeq(console, LAMBDA l : l.kind \in {"status", "error"})

\* C16: a finished `send` with repeat = R has made exactly R calls, one
\* after the other, and printed one line per call in call order: the status
\* of a call that got a response, an error line for a call that raised.
C16_ExactlyRAttempts ==
    spc = "done"
        => /\ Len(calls) = opts.repeat
           /\ Len(AttemptLines) = opts.repeat
           /\ \A k \in DOMAIN calls :
                  /\ k > 1 => calls[k - 1].at < calls[k].at
                  /\ IF calls[k].outcome.kind = "error"
                     THEN AttemptLines[k].kind = "error"
                     ELSE /\ AttemptLines[k].kind = "status"
                          /\ AttemptLines[k].status = calls[k].outcome.status

\* A finished run of MaxRepeat attempts that all raised.
C16_Witness ==
    /\ spc = "done"
    /\ opts.repeat = MaxRepeat
    /\ Len(calls) = MaxRepeat
    /\ \A k \in DOMAIN calls : calls[k].outcome.kind = "error"

\* C17: a finished `send` with repeat = R and a delay has slept exactly R-1
\* times, once after each attempt but the last, whatever the outcomes.
C17_DelaysBetweenAttempts ==
    spc = "done" /\ opts.delay > 0 => sleeps = [k \in 1..(opts.repeat - 1) |-> k - 1]

IsMarker(b) == DOMAIN b = {"test", "timestamp"} /\ b.test = TRUE

\* C18 as stated: without --data every call, whatever the method, carries
\* the marker payload as its body.
C18_MarkerBodyEveryMethod ==
    \A k \in DOMAIN calls :
        opts.data = NoData => calls[k].hasJson /\ IsMarker(calls[k].json)

\* C18: without --data every call of a method other than GET and DELETE
\* carries the marker payload, built once before the first attempt, and the
\* GET and DELETE calls carry no body.
C18_MarkerBodyUnlessGetDelete ==
    \A k \in DOMAIN calls :
        opts.data = NoData
            => IF calls[k].method \in {"GET", "DELETE"}
               THEN ~calls[k].hasJson /\ calls[k].json = NoBody
               ELSE /\ calls[k].hasJson
                    /\ IsMarker(calls[k].json)
                    /\ calls[k].json = sendBody
                    /\ calls[k].json.timestamp < calls[1].at

\* MaxRepeat calls of a run without --data went out with the marker payload.
C18_Witness ==
    /\ opts.data = NoData
    /\ Len(calls) = MaxRepeat
    /\ calls[1].method = "PATCH"
    /\ IsMarker(calls[MaxRepeat].json)

\* The --header options that name Content-Type, in any case.
CallerContentTypes ==
    {n \in DOMAIN opts.header :
        /\ HasColon(opts.header[n])
        /\ LowerAll(Strip(KeyOf(opts.header[n]))) = <<"content-type">>}

\* The value the request is to carry.
WantedContentType ==
    IF CallerContentTypes = {} THEN <<"application/json">>
    ELSE LET last == CHOOSE n \in CallerContentTypes : \A j \in CallerContentTypes : j <= n
         IN  Strip(ValueOf(opts.header[last]))

\* C19: every request `send` issues carries exactly one Content-Type
\* header: the caller's value when a --header names Content-Type,
\* application/json otherwise.
C19_OneContentType ==
    \A k \in DOMAIN calls :
        LET sent == SentHeaders(calls[k])
            cts == {j \in DOMAIN sent : LowerAll(sent[j].name) = <<"content-type">>}
        IN  /\ Cardinality(cts) = 1
            /\ \A j \in cts : sent[j].value = WantedContentType

\* A request went out with the caller's Content-Type next to another header.
C19_Witness ==
    /\ calls # <<>>
    /\ Len(opts.header) = 2
    /\ CallerContentTypes # {}

\* C20: a `listen` or `mock` started on a port another server holds ends at
\* once with a failure status: it takes no connection, serves no request,
\* appends nothing to the capture log and writes no export file, and the
\* port stays with the server that held it.
C20_BusyPortFailsFast ==
    portBusy
        => /\ srv \in {"starting", "failed"}
           /\ srv = "failed" => exitCode # 0
           /\ \A c \in Conns : cstate[c] = "idle" /\ resp[c] = <<>>
           /\ handled = {}
           /\ REQUESTS_LOG = <<>>
           /\ file = <<>>

\* The start on a busy port has failed.
C20_Witness == portBusy /\ srv = "failed" /\ exitCode = 1

\* HH:MM:SS of the instant t.
TimeOfDay(t) ==
    TwoDigits(t \div 3600) \o <<":">> \o TwoDigits((t \div 60) % 60) \o <<":">>
        \o TwoDigits(t % 60)

\* The body text of a loaded item (empty when it has none).
BodyText(req) == IF "body" \in DOMAIN req THEN req.body ELSE <<>>

\* Row k of the table shows item k: index, method, the path cut at 30
\* characters and the time of day.
RowShows(k, req) ==
    /\ table[k].index = k
    /\ table[k].method = req.method
    /\ IsPrefix(table[k].path, PathChars(req.path))
    /\ Len(table[k].path) = Min(30, Len(PathChars(req.path)))
    /\ table[k].time = TimeOfDay(req.timestamp)

\* C21: the table `inspect` prints has one row per loaded record, in order,
\* with the index from 1, the method, the path cut at 30 characters, the
\* time of day and the size of the body in bytes; the loaded records and
\* the file are as they were.
C21_InspectProjection ==
    ipc = "done"
        => /\ Len(table) = Len(loaded.data)
           /\ \A k \in DOMAIN table :
                  /\ RowShows(k, loaded.data[k])
                  /\ table[k].size = Len(EncodeUtf8(BodyText(loaded.data[k])))
           /\ loaded = LoadedOk(JsonLoad(file))

\* The same projection with the body size counted in characters.
InspectRowsInCharacters ==
    ipc = "done"
        => /\ Len(table) = Len(loaded.data)
           /\ \A k \in DOMAIN table :
                  /\ RowShows(k, loaded.data[k])
                  /\ table[k].size = Len(BodyText(loaded.data[k]))
           /\ loaded = LoadedOk(JsonLoad(file))

\* The file is missing, is not JSON, or holds an object that is not a record.
BadFile ==
    \/ file = <<>>
    \/ ~JsonValid(file)
    \/ \E k \in 2..(Len(file) - 1) : DOMAIN file[k].members # ExportFields

TableLines == SelectSeq(console, LAMBDA l : l.kind = "table")

\* C22: on a file that cannot be read, is not JSON or holds an object that
\* does not fit the record schema, `inspect` ends with an error and shows
\* no table, not even the rows before the offending record.
C22_LoadFailsClosed ==
    BadFile
        => /\ TableLines = <<>>
           /\ ipc # "done"
           /\ ipc = "failed" => \E n \in DOMAIN console : console[n].kind = "error"

\* The same for the files `inspect` does refuse: missing, not JSON, or with
\* an object that lacks one of the keys the rows index.
FailsClosedOnRefusedFiles ==
    (file = <<>> \/ ~JsonValid(file)
        \/ \E k \in 2..(Len(file) - 1) : RowRaises(file[k].members))
        => /\ TableLines = <<>>
           /\ ipc # "done"
           /\ ipc = "failed" => \E n \in DOMAIN console : console[n].kind = "error"

\* C23: the capture log and the export of a `listen` run hold only records
\* that run captured (none of an earlier run of the same process), so the
\* log of a run is empty when its server starts.
C23_LogOfOneServer ==
    /\ \A i \in DOMAIN REQUESTS_LOG : REQUESTS_LOG[i].timestamp >= runStart
    /\ file # <<>>
           => \A i \in DOMAIN JsonLoad(file) : JsonLoad(file)[i].timestamp >= runStart

\* C24: the capture log is append-only: in every step, handling, interrupt
\* and export included, the log before the step is a prefix of the log
\* after it, so no record is removed, moved or changed.
C24_AppendOnly == [][IsPrefix(REQUESTS_LOG, REQUESTS_LOG')]_vars

\* Two records were appended, then the run was interrupted and exported.
C24_Witness ==
    /\ srv = "exited"
    /\ Len(REQUESTS_LOG) = 2
    /\ file # <<>>

\* The value of the last header of a request with the given name.
LastValue(hs, name) ==
    LET last == CHOOSE j \in DOMAIN hs :
                    /\ hs[j].name = name
                    /\ \A k \in DOMAIN hs : hs[k].name = name => k <= j
    IN  hs[last].value

\* The recorded headers hold one entry per name sent, with its last value.
CollapsedLastWins(rec, hs) ==
    /\ {rec[j].name : j \in DOMAIN rec} = {hs[j].name : j \in DOMAIN hs}
    /\ \A j, k \in DOMAIN rec : rec[j].name = rec[k].name => j = k
    /\ \A j \in DOMAIN rec : rec[j].value = LastValue(hs, rec[j].name)

\* C25: the headers of a record are the request's headers, every occurrence
\* of a repeated name in arrival order; or, collapsed to one entry per name,
\* they keep the last value received.
C25_DuplicateHeaders ==
    \A i \in DOMAIN REQUESTS_LOG :
        logOwner[i] \in Conns
            => \/ REQUESTS_LOG[i].headers = creq[logOwner[i]].headers
               \/ CollapsedLastWins(REQUESTS_LOG[i].headers, creq[logOwner[i]].headers)

\* C26: the export is a snapshot of the stopped server: the log changes only
\* while the serve loop runs, the file is written only after the interrupt
\* with no handler active, and the written file is a well-formed array that
\* reads back as the whole log, every record complete.
C26_ExportSnapshot ==
    [][ /\ (srv # "serving" => REQUESTS_LOG' = REQUESTS_LOG)
        /\ (file' # file =>
                /\ srv = "interrupted"
                /\ active = 0
                /\ pc = "idle"
                /\ REQUESTS_LOG' = REQUESTS_LOG
                /\ JsonValid(file')
                /\ JsonLoad(file') = REQUESTS_LOG) ]_vars

\* A run that recorded a request and was interrupted while another
\* connection was waiting has written its file.
C26_Witness ==
    /\ srv = "exited"
    /\ file # <<>>
    /\ REQUESTS_LOG # <<>>
    /\ inflight # {}

\* The clients that received the 200 acknowledgement.
Acked == {c \in Conns : resp[c] # <<>> /\ resp[c][1].code = 200}

\* C27: the append precedes the acknowledgement: there are never more
\* acknowledged clients than records, and every acknowledged client has its
\* record, with the acknowledged timestamp, in the log.
C27_AppendBeforeAck ==
    /\ Cardinality(Acked) <= Len(REQUESTS_LOG)
    /\ \A c \in Acked : \E i \in RecordsOf(c) : AckedWith(c, i)

\* One client was acknowledged; the other's record was appended and the
\* interrupt came before its response.
C27_Witness ==
    /\ srv = "interrupted"
    /\ Acked # {}
    /\ \E c \in Conns \ Acked : RecordsOf(c) # {} /\ resp[c] = <<>>

\* The connections a handler is running for.
Handling == {c \in Conns : cstate[c] = "active"}

\* At most one handler, and it is the one the serve loop is inside of.
OneHandler ==
    /\ Cardinality(Handling) <= 1
    /\ Handling = IF active = 0 THEN {} ELSE {active}
    /\ (pc # "idle") = (active # 0)

\* C28: each server (listen and mock) handles its connections strictly one
\* at a time: at most one handler is active, a handler ends before another
\* connection is taken, and a step appends at most one record, for the
\* connection being handled.
C28_OneAtATime ==
    /\ []OneHandler
    /\ [][ /\ (active # 0 /\ active' # active
                  => active' = 0 /\ cstate'[active] = "closed")
           /\ Len(REQUESTS_LOG') <= Len(REQUESTS_LOG) + 1
           /\ (REQUESTS_LOG' # REQUESTS_LOG
                  => /\ active # 0
                     /\ active' = active
                     /\ logOwner'[Len(REQUESTS_LOG')] = active) ]_vars

\* A handler is about to append while the other client, whose whole request
\* has arrived, waits in the queue.
C28_Witness ==
    /\ srv = "serving"
    /\ pc = "append"
    /\ \E c \in Conns \ {active} :
           cstate[c] = "queued" /\ arrived[c] = Len(creq[c].payload)

\* The same in the mock server: one request is being answered, the other
\* waits.
MockOneAtATimeSeen ==
    /\ mock # NoMock
    /\ srv = "serving"
    /\ active # 0
    /\ \E c \in Conns \ {active} : cstate[c] = "queued"

\* The handling of c's request raised inside _handle_request or while the
\* request was read (a 400 or 501 answer is a rejection, not a failure).
HandlerRaised(c) ==
    /\ c \in failed
    /\ creq[c].wellformed
    /\ creq[c].method \in DoMethods

\* C29: capture is all-or-nothing: a request whose handling failed before
\* the append has no record, no trace line and no response byte, its
\* connection is closed, and the server is still there for the next one.
C29_AllOrNothing ==
    /\ \A c \in Conns :
           HandlerRaised(c)
               => /\ RecordsOf(c) = {}
                  /\ resp[c] = <<>>
                  /\ cstate[c] = "closed"
                  /\ srv # "crashed"
    /\ Len(console) <= Len(REQUESTS_LOG)
    /\ \A n \in DOMAIN console :
           /\ logOwner[n] \in Conns
           /\ ~HandlerRaised(logOwner[n])

\* A body that was cut inside a two-byte character failed to decode, and
\* the server is now handling the next connection, about to append.
C29_Witness ==
    /\ pc = "append"
    /\ \E c \in Conns \ {active} :
           /\ HandlerRaised(c)
           /\ gotBytes[c] # <<>>
           /\ ~ValidUtf8(gotBytes[c])

\* A --header option has no colon.
BadHeaderOption == \E n \in DOMAIN opts.header : ~HasColon(opts.header[n])

\* No request went out and no per-attempt line was printed.
NoTraffic ==
    /\ calls = <<>>
    /\ AttemptLines = <<>>
    /\ sleeps = <<>>

\* C30: the arguments of `send` are validated before any traffic: with a
\* --header option without ':' or a --data text that is not valid JSON the
\* command fails with zero attempts, no request and no per-attempt line.
C30_ValidationBeforeTraffic ==
    (BadHeaderOption \/ (opts.data.given /\ JsonLoadsRaises(opts.data.text)))
        => NoTraffic

\* The same for every --data text but the empty one, which is where the
\* code stands: a colon-less header or a non-empty text that is not JSON
\* ends the command before the loop.
NoTrafficOnRefusedArguments ==
    /\ (BadHeaderOption \/ (Truthy(opts.data) /\ JsonLoadsRaises(opts.data.text)))
           => NoTraffic /\ spc \in {"headers", "body", "failed"}
    /\ spc = "failed"
           => /\ calls = <<>>
              /\ BadHeaderOption \/ (Truthy(opts.data) /\ JsonLoadsRaises(opts.data.text))

\* `send --data ""` has sent the marker payload.
EmptyDataSent ==
    /\ opts.data = Data(<<>>)
    /\ spc = "done"
    /\ Len(calls) = opts.repeat
    /\ IsMarker(calls[1].json)

\* `send --data "{k"` has failed at json.loads.
BadJsonRefused ==
    /\ opts.data = Data(<<"{", "k">>)
    /\ spc = "failed"

====
